---- MODULE Spec2Model ----
(***************************************************************************)
(* AnyDoc file converter (src/main.py): the conversion worker              *)
(* (ConvertWorker) and the window that drives it (MainWindow).             *)
(*                                                                         *)
(* A file is a record: its folder, its name as the sequence of the parts   *)
(* between dots ("doc.pdf" is <<"doc", "pdf">>), what its bytes are        *)
(* (kind), and the content the libraries find in it (pages of a PDF,       *)
(* colour mode of an image, characters of a text).                         *)
(***************************************************************************)
EXTENDS Integers, Sequences, FiniteSets, TLC

\* ------------------------------------------------------------------ bounds
\* Largest page count of a PDF input.
MaxPages == 3
\* Most signals still queued for the window when a conversion is started.
MaxPending == 1
\* The user picks among the first MaxPick entries of combo_target.
MaxPick == 4
\* Most conversions made, one after the other, of the output of the one before.
MaxChain == 1

\* ------------------------------------------------------- program constants
CODE_EXTS == <<"py", "js", "c", "cpp", "cs", "java", "json", "css", "html">>

\* list(CONVERSIONS.keys()), in insertion order.
SourceTypes == <<"PDF", "Image", "DOCX", "TXT", "MD", "HTML", "Code">>

Range(s) == {s[i] : i \in DOMAIN s}

\* The matrix with docx among the targets of PDF.
ConversionsPdfToDocx ==
    [s \in Range(SourceTypes) |->
        CASE s = "PDF"   -> <<"png", "jpg", "jpeg", "txt", "docx">>
          [] s = "Image" -> <<"png", "jpg", "jpeg", "webp", "bmp", "gif">>
          [] s = "DOCX"  -> <<"txt", "md">>
          [] s = "TXT"   -> <<"docx", "md">> \o CODE_EXTS
          [] s = "MD"    -> <<"txt", "docx", "html", "pdf">>
          [] s = "HTML"  -> <<"pdf", "txt", "md">>
          [] s = "Code"  -> <<"txt", "md", "docx">>]

CONVERSIONS ==
    [s \in Range(SourceTypes) |->
        CASE s = "PDF"   -> <<"png", "jpg", "jpeg", "txt">>
          [] s = "Image" -> <<"png", "jpg", "jpeg", "webp", "bmp", "gif">>
          [] s = "DOCX"  -> <<"txt", "md">>
          [] s = "TXT"   -> <<"docx", "md">> \o CODE_EXTS
          [] s = "MD"    -> <<"txt", "docx", "html", "pdf">>
          [] s = "HTML"  -> <<"pdf", "txt", "md">>
          [] s = "Code"  -> <<"txt", "md", "docx">>]

\* ------------------------------------------------------------ string helpers
\* str.lower() on the strings of this model (the only ones with capitals).
Lower(s) ==
    CASE s = "PNG"  -> "png"
      [] s = "TXT"  -> "txt"
      [] s = "JPG"  -> "jpg"
      [] s = ".JPG" -> ".jpg"
      [] s = ".HTML" -> ".html"
      [] s = ".PY"  -> ".py"
      [] OTHER      -> s

\* str.upper() on the target formats.
Upper(s) ==
    CASE s = "png" -> "PNG"   [] s = "jpg" -> "JPG"   [] s = "jpeg" -> "JPEG"
      [] s = "txt" -> "TXT"   [] s = "webp" -> "WEBP" [] s = "bmp" -> "BMP"
      [] s = "gif" -> "GIF"   [] s = "md" -> "MD"     [] s = "docx" -> "DOCX"
      [] s = "html" -> "HTML" [] s = "pdf" -> "PDF"   [] s = "py" -> "PY"
      [] s = "js" -> "JS"     [] s = "c" -> "C"       [] s = "cpp" -> "CPP"
      [] s = "cs" -> "CS"     [] s = "java" -> "JAVA" [] s = "json" -> "JSON"
      [] s = "css" -> "CSS"   [] s = "xml" -> "XML"
      [] OTHER -> s

\* os.path.splitext on a name given as its dot-separated parts: the extension
\* starts at the last dot, unless only dots (and nothing else) precede it.
HasExt(name) == Len(name) >= 2 /\ \E i \in 1..(Len(name) - 1) : name[i] # ""

SplitRoot(name) == IF HasExt(name) THEN SubSeq(name, 1, Len(name) - 1) ELSE name

SplitExt(name) == IF HasExt(name) THEN "." \o name[Len(name)] ELSE ""

\* f"{base_name}{suffix}.{ext}" as a name: the suffix joins the last part of
\* the base name, the extension becomes a new last part.
WithSuffix(root, suffix, ext) ==
    SubSeq(root, 1, Len(root) - 1) \o <<root[Len(root)] \o suffix, ext>>

\* --------------------------------------------------------------- text files
\* open(..., 'r', encoding='utf-8') reads with universal newlines: "\r\n" and
\* a lone "\r" both arrive as "\n".
RECURSIVE ReadText(_)
ReadText(t) ==
    IF t = <<>> THEN <<>>
    ELSE IF t[1] = "CR"
         THEN IF Len(t) >= 2 /\ t[2] = "LF"
              THEN <<"LF">> \o ReadText(SubSeq(t, 3, Len(t)))
              ELSE <<"LF">> \o ReadText(Tail(t))
         ELSE <<t[1]>> \o ReadText(Tail(t))

\* open(..., 'w', encoding='utf-8') writes "\n" as os.linesep.
RECURSIVE WriteText(_, _)
WriteText(t, os) ==
    IF t = <<>> THEN <<>>
    ELSE IF t[1] = "LF" /\ os = "nt"
         THEN <<"CR", "LF">> \o WriteText(Tail(t), os)
         ELSE <<t[1]>> \o WriteText(Tail(t), os)

\* markdown.markdown(text) on a text of one paragraph.
Markdown(t) == <<"<p>">> \o t \o <<"</p>">>

\* --------------------------------------------------------------- percentages
\* The pairs (k, N), N < 200, where the double product (k / N) * 100 falls just
\* below the integer 100k/N, so that int() drops one.
FloatShort == {<<29, 50>>, <<29, 100>>, <<57, 100>>, <<58, 100>>, <<87, 150>>}

\* round(a / b) as Python rounds: to the nearest integer, a half to the even one.
Round(a, b) ==
    LET r == (2 * a + b) \div (2 * b)
    IN  IF (2 * a + b) % (2 * b) = 0 /\ r % 2 = 1 THEN r - 1 ELSE r

\* round(k / n * 100) in place of int().
PercentRounded(k, n) == Round(100 * k, n)

\* i in place of i + 1: the pages done before this one.
PercentOffByOne(k, n) == (100 * (k - 1)) \div n

\* int((k / n) * 100), k = i + 1 pages done of n = total_pages: int() truncates.
Percent(k, n) ==
    IF <<k, n>> \in FloatShort THEN ((100 * k) \div n) - 1 ELSE (100 * k) \div n

\* -------------------------------------------------------------------- files
File(dir, name, kind, pages, mode, text) ==
    [dir |-> dir, name |-> name, kind |-> kind, pages |-> pages, mode |-> mode,
     text |-> text, entries |-> <<>>]

NoFile == File("", <<>>, "none", 0, "", <<>>)

\* The files offered to the window's file dialog: PDF bytes under a .txt name,
\* an image and a text file without extension.
ShellFiles ==
    { File("/a", <<"memo", "txt">>, "pdf", 2, "", <<>>),
      File("/b", <<"pic", "png">>, "png", 0, "RGBA", <<>>),
      File("/b", <<"README">>, "text", 0, "", <<"a", "CR", "LF", "b">>) }

\* The files handed to a worker that is constructed directly; map.tif is a
\* palette image with alpha, which Image.open gives mode PA.
WorkerFiles ==
    ShellFiles
    \cup { File("/a", <<"doc", "pdf">>, "pdf", n, "", <<>>) : n \in 0..MaxPages }
    \cup { File("/a", <<"pic", "png">>, "png", 0, m, <<>>) :
             m \in {"RGB", "RGBA", "LA", "P", "L"} }
    \cup { File("/a", <<"map", "tif">>, "tiff", 0, "PA", <<>>),
           File("/a", <<"letter", "docx">>, "docx", 0, "", <<"a", "LF", "b">>),
           File("/a", <<"photo", "jpg">>, "junk", 0, "", <<>>),
           File("/a", <<"scan", "png">>, "pdf", 1, "", <<>>),
           File("/a", <<"notes", "txt">>, "text", 0, "", <<"a", "LF">>),
           File("/a", <<"readme", "md">>, "text", 0, "", <<"a", "LF">>),
           File("/a", <<"page", "html">>, "text", 0, "", <<"a", "LF">>),
           File("/a", <<"main", "PY">>, "text", 0, "", <<"a">>) }

\* The files dropped on the window: every kind of bytes under every name.
DropNames ==
    { <<"f", e>> : e \in {"pdf", "png", "jpg", "jpeg", "webp", "bmp", "gif", "docx",
                          "md", "htm", "html", "txt", "py", "js", "c", "cpp", "cs",
                          "java", "json", "css", "JPG", "HTML", "PY", "xyz"} }
    \cup { <<"README">>, <<"", "html">>, <<"a", "tar", "txt">> }

DropFiles ==
    { File("/b", n, k, 1, "RGB", <<"a">>) :
        n \in DropNames, k \in {"pdf", "png", "jpg", "docx", "text", "junk"} }

\* The folders the output-folder dialog can return.
OutDirs == {"/out"}

\* filetype.guess(path).mime, "" for None (no magic number matched).
Guess(f) ==
    CASE f.kind = "pdf"  -> "application/pdf"
      [] f.kind = "png"  -> "image/png"
      [] f.kind = "jpg"  -> "image/jpeg"
      [] f.kind = "docx" -> "application/zip"
      [] f.kind = "zip"  -> "application/zip"
      [] f.kind \in {"webp", "bmp", "gif", "tiff"} -> "image/" \o f.kind
      [] OTHER           -> ""

\* sub in mime, for the mime types and the two substrings the code tests.
MimeHas(sub, mime) ==
    \/ sub = "pdf" /\ mime = "application/pdf"
    \/ sub = "image" /\ mime \in {"image/png", "image/jpeg", "image/webp",
                                  "image/bmp", "image/gif", "image/tiff"}

\* ----------------------------------------------------------- type detection
\* The chain with the test of CODE_EXTS ahead of the tests of .htm/.html.
DetectCodeFirst(f) ==
    LET kind == Guess(f)
        ext  == Lower(SplitExt(f.name))
    IN  IF kind # "" /\ MimeHas("pdf", kind) THEN "PDF"
        ELSE IF kind # "" /\ MimeHas("image", kind) THEN "Image"
        ELSE IF ext = ".pdf" THEN "PDF"
        ELSE IF ext \in {".png", ".jpg", ".jpeg", ".webp", ".bmp", ".gif"} THEN "Image"
        ELSE IF ext = ".docx" THEN "DOCX"
        ELSE IF ext = ".md" THEN "MD"
        ELSE IF \E c \in Range(CODE_EXTS) : ext = "." \o c THEN "Code"
        ELSE IF ext \in {".htm", ".html"} THEN "HTML"
        ELSE IF ext = ".txt" THEN "TXT"
        ELSE ""

\* The if/elif chain of detect_file_type; "" is None.
DetectType(f) ==
    LET kind == Guess(f)
        ext  == Lower(SplitExt(f.name))
    IN  IF kind # "" /\ MimeHas("pdf", kind) THEN "PDF"
        ELSE IF kind # "" /\ MimeHas("image", kind) THEN "Image"
        ELSE IF ext = ".pdf" THEN "PDF"
        ELSE IF ext \in {".png", ".jpg", ".jpeg", ".webp", ".bmp", ".gif"} THEN "Image"
        ELSE IF ext = ".docx" THEN "DOCX"
        ELSE IF ext = ".md" THEN "MD"
        ELSE IF ext \in {".htm", ".html"} THEN "HTML"
        ELSE IF ext = ".txt" THEN "TXT"
        ELSE IF \E c \in Range(CODE_EXTS) : ext = "." \o c THEN "Code"
        ELSE ""

\* -------------------------------------------------------------------- state
VARIABLES
    platform,              \* os.name of the machine: decides os.linesep
    input_file,            \* MainWindow.input_file (NoFile is None)
    output_dir,            \* MainWindow.output_dir ("" is None)
    custom_output_dir,     \* MainWindow.custom_output_dir
    combo_source_enabled,  \* combo_source.isEnabled()
    combo_source,          \* combo_source.currentText()
    combo_target_items,    \* the items of combo_target
    combo_target,          \* combo_target.currentText() ("" when empty)
    combo_target_enabled,  \* combo_target.isEnabled()
    btn_convert,           \* btn_convert.isEnabled()
    dialog,                \* the message box detect_file_type showed last
    detected_type,         \* detected_type of the last detect_file_type
    worker,                \* MainWindow.worker, or a worker constructed directly
    queue,                 \* signals queued for the window's thread
    crashed,               \* the process was aborted
    chain                  \* the jobs whose outputs led to the worker's input

shellVars ==
    <<input_file, output_dir, custom_output_dir, combo_source_enabled, combo_source,
      combo_target_items, combo_target, combo_target_enabled, btn_convert,
      dialog, detected_type>>

vars == <<platform, shellVars, worker, queue, crashed, chain>>

\* ------------------------------------------------------------------- signals
Progress(v) == [kind |-> "progress", pct |-> v, msg |-> ""]
Finished(m) == [kind |-> "finished", pct |-> 0, msg |-> m]
Error(m)    == [kind |-> "error", pct |-> 0, msg |-> m]

\* ------------------------------------------------------------- ConvertWorker
NoWorker ==
    [input_file |-> NoFile, output_dir |-> "", source_format |-> "",
     target_format |-> "", connected |-> FALSE, pc |-> "none", total_pages |-> 0,
     i |-> 0, text_content |-> <<>>, img_mode |-> "", render |-> "none",
     emitted |-> <<>>, handles |-> {}, written |-> {}]

\* ConvertWorker.__init__ followed by start(); connected: the window's slots are
\* connected to the three signals.
ConvertWorker(f, d, s, t, connected) ==
    [NoWorker EXCEPT !.input_file = f, !.output_dir = d, !.source_format = s,
                     !.target_format = Lower(t), !.connected = connected,
                     !.pc = "start"]

\* The base name taken from the file the window holds when run() reads it.
BaseNameOfWindow(w) == SplitRoot(input_file.name)

\* base_name = os.path.splitext(os.path.basename(self.input_file))[0]
BaseName(w) == SplitRoot(w.input_file.name)

\* page.get_text() of one page.
PageText == <<"a", "LF">>

\* len(doc) for the files fitz.open opens: a PDF has its pages, an image opens
\* as a document of one page; the empty set: fitz.open raises.
FitzPages(f) ==
    CASE f.kind = "pdf"            -> {f.pages}
      [] f.kind \in {"png", "jpg", "bmp", "gif", "tiff"} -> {1}
      [] OTHER                     -> {}

\* The file a Pillow or PyMuPDF image writer produces for an extension.
ImageKind(ext) == IF ext \in {"jpg", "jpeg"} THEN "jpg" ELSE ext

\* img.save(out_path): Pillow picks the writer by the extension and the writer
\* accepts some colour modes only.
PilSaves(ext, mode) ==
    CASE ext \in {"jpg", "jpeg"} -> mode \in {"RGB", "L"}
      [] ext = "png"             -> mode \in {"RGB", "RGBA", "LA", "P", "L"}
      [] ext = "bmp"             -> mode \in {"RGB", "RGBA", "P", "L"}
      [] ext \in {"webp", "gif"} -> TRUE
      [] ext = "pdf"             -> mode \in {"RGB", "L", "P"}
      [] OTHER                   -> FALSE

\* One step of run(): the worker becomes w2 and emits evs, which are queued for
\* the window's thread when its slots are connected. The queue keeps the kind
\* of each signal: its value only reaches the progress bar or a message box.
WorkerStep(w2, evs) ==
    /\ ~crashed
    /\ worker' = [w2 EXCEPT !.emitted = @ \o evs]
    /\ queue' = IF worker.connected
                THEN queue \o [k \in DOMAIN evs |-> evs[k].kind]
                ELSE queue
    /\ UNCHANGED <<platform, chain, shellVars, crashed>>

\* except Exception as e: self.error.emit(str(e)). The with blocks the
\* exception leaves have released the archive and the image; doc.close() of
\* line 270 is skipped.
Raised(w, m) ==
    WorkerStep([w EXCEPT !.pc = "returned", !.handles = @ \ {"zip", "img"}],
               <<Error(m)>>)

\* doc.close() and the end of run().
Closed(w) == [w EXCEPT !.pc = "returned", !.handles = @ \ {"doc"}]

\* run(): base_name and the if/elif chain on source_format; a source_format
\* that no branch tests falls through to the end of run().
run_enter ==
    /\ worker.pc = "start"
    /\ WorkerStep(
         [worker EXCEPT !.pc =
             CASE worker.source_format = "PDF"   -> "pdf_open"
               [] worker.source_format = "Image" -> "image_open"
               [] worker.source_format = "DOCX"  -> "docx"
               [] worker.source_format \in {"TXT", "MD", "HTML", "Code"} -> "text_read"
               [] OTHER -> "returned"],
         <<>>)

\* doc = fitz.open(...); total_pages = len(doc); the if/elif on target_format.
\* A target_format that neither branch tests goes straight to doc.close().
pdf_open ==
    /\ worker.pc = "pdf_open"
    /\ \E n \in FitzPages(worker.input_file) \cup {-1} :
         IF n = -1
         THEN Raised(worker, "cannot open document")
         ELSE LET w == [worker EXCEPT !.total_pages = n, !.i = 0,
                                      !.handles = @ \cup {"doc"}]
                  t == worker.target_format
              IN  WorkerStep(
                    IF t = "txt" THEN [w EXCEPT !.pc = "pdf_txt"]
                    ELSE IF t \in {"png", "jpg", "jpeg"}
                         THEN IF n > 1 THEN [w EXCEPT !.pc = "pdf_zip_open"]
                              ELSE [w EXCEPT !.pc = "pdf_single"]
                    ELSE Closed(w),
                    <<>>)

\* One pass of the loop of PDF -> txt.
pdf_txt_page ==
    /\ worker.pc = "pdf_txt"
    /\ worker.i < worker.total_pages
    /\ \E ok \in BOOLEAN :
         IF ok
         THEN WorkerStep([worker EXCEPT !.text_content = @ \o PageText, !.i = @ + 1],
                         <<Progress(Percent(worker.i + 1, worker.total_pages))>>)
         ELSE Raised(worker, "cannot load page")

\* After the loop: write <base_name>.txt, emit finished, close the document.
pdf_txt_write ==
    /\ worker.pc = "pdf_txt"
    /\ worker.i = worker.total_pages
    /\ \E ok \in BOOLEAN :
         IF ok
         THEN WorkerStep(
                Closed([worker EXCEPT !.written = @ \cup
                    {File(worker.output_dir, WithSuffix(BaseName(worker), "", "txt"),
                          "text", 0, "", WriteText(worker.text_content, platform))}]),
                <<Finished("PDF successfully extracted to Text!")>>)
         ELSE Raised(worker, "cannot write output file")

\* with zipfile.ZipFile(zip_path, 'w', ...) as zipf: the archive is created.
pdf_zip_open ==
    /\ worker.pc = "pdf_zip_open"
    /\ \E ok \in BOOLEAN :
         IF ok
         THEN WorkerStep(
                [worker EXCEPT !.pc = "pdf_zip", !.handles = @ \cup {"zip"},
                    !.written = @ \cup
                      {File(worker.output_dir,
                            WithSuffix(BaseName(worker), "_images", "zip"),
                            "zip", 0, "", <<>>)}],
                <<>>)
         ELSE Raised(worker, "cannot write output file")

\* The entry named after i in place of i + 1.
ZipEntryFromZero(w) ==
    [name |-> WithSuffix(BaseName(w), "_page_" \o ToString(w.i), w.target_format),
     kind |-> ImageKind(w.target_format)]

\* zipf.writestr(f"{base_name}_page_{i+1}.{target_format}", img_data)
ZipEntry(w) ==
    [name |-> WithSuffix(BaseName(w), "_page_" \o ToString(w.i + 1), w.target_format),
     kind |-> ImageKind(w.target_format)]

\* One pass of the loop of PDF -> images, more than one page.
pdf_zip_page ==
    /\ worker.pc = "pdf_zip"
    /\ worker.i < worker.total_pages
    /\ \E ok \in BOOLEAN :
         IF ok
         THEN WorkerStep(
                [worker EXCEPT !.i = @ + 1,
                    !.written = {[z EXCEPT !.entries = @ \o <<ZipEntry(worker)>>] :
                                    z \in @}],
                <<Progress(Percent(worker.i + 1, worker.total_pages))>>)
         ELSE Raised(worker, "cannot render page")

\* The with block ends (the archive is closed), finished, doc.close().
pdf_zip_close ==
    /\ worker.pc = "pdf_zip"
    /\ worker.i = worker.total_pages
    /\ \E ok \in BOOLEAN :
         IF ok
         THEN WorkerStep(Closed([worker EXCEPT !.handles = @ \ {"zip"}]),
                         <<Finished(
                            "Multiple PDF pages successfully zipped as images!")>>)
         ELSE Raised(worker, "cannot write output file")

\* self.progress.emit(100); self.finished.emit(...) of the single page.
SingleDoneSwapped ==
    <<Finished("Single PDF page successfully converted to image!"), Progress(100)>>

SingleDone ==
    <<Progress(100), Finished("Single PDF page successfully converted to image!")>>

\* total_pages > 1 is false: page 0 is rendered and saved as <base_name>.<ext>.
\* doc.load_page(0) raises on a document without pages.
pdf_single ==
    /\ worker.pc = "pdf_single"
    /\ \E ok \in (IF worker.total_pages = 0 THEN {FALSE} ELSE BOOLEAN) :
         IF ok
         THEN WorkerStep(
                Closed([worker EXCEPT !.written = @ \cup
                    {File(worker.output_dir,
                          WithSuffix(BaseName(worker), "", worker.target_format),
                          ImageKind(worker.target_format), 0, "RGB", <<>>)}]),
                SingleDone)
         ELSE Raised(worker, "page not in document")

\* The kinds of file Image.open identifies.
PilOpens == {"png", "jpg", "webp", "bmp", "gif", "tiff"}

\* if self.target_format in ['jpg', 'jpeg'] and img.mode in ('RGBA', 'LA', 'P'):
\*     img = img.convert('RGB')
Flatten(t, mode) ==
    IF t \in {"jpg", "jpeg"} /\ mode \in {"RGBA", "LA", "P"} THEN "RGB" ELSE mode

\* with Image.open(self.input_file) as img, and the flattening for jpg/jpeg.
image_open ==
    /\ worker.pc = "image_open"
    /\ \E ok \in (IF worker.input_file.kind \in PilOpens THEN BOOLEAN ELSE {FALSE}) :
         IF ok
         THEN WorkerStep(
                [worker EXCEPT !.pc = "image_save", !.handles = @ \cup {"img"},
                    !.img_mode = Flatten(worker.target_format,
                                         worker.input_file.mode)],
                <<>>)
         ELSE Raised(worker, "cannot identify image file")

\* The rest of the with block: save, progress, finished; the block's end
\* closes the image.
image_save ==
    /\ worker.pc = "image_save"
    /\ LET t    == worker.target_format
           mode == worker.img_mode
       IN  \E ok \in (IF PilSaves(t, mode) THEN BOOLEAN ELSE {FALSE}) :
             IF ok
             THEN WorkerStep(
                    [worker EXCEPT !.pc = "returned", !.handles = @ \ {"img"},
                        !.written = @ \cup
                          {File(worker.output_dir,
                                WithSuffix(BaseName(worker), "_converted", t),
                                ImageKind(t), 0, mode, <<>>)}],
                    <<Progress(100),
                      Finished("Image converted to " \o Upper(t) \o "!")>>)
             ELSE Raised(worker, "cannot save image")

\* The DOCX branch: the paragraphs joined by "\n" are written as text.
docx_to_text ==
    /\ worker.pc = "docx"
    /\ \E ok \in (IF worker.input_file.kind = "docx" THEN BOOLEAN ELSE {FALSE}) :
         IF ok
         THEN WorkerStep(
                [worker EXCEPT !.pc = "returned",
                    !.text_content = worker.input_file.text,
                    !.written = @ \cup
                      {File(worker.output_dir,
                            WithSuffix(BaseName(worker), "", worker.target_format),
                            "text", 0, "", WriteText(worker.input_file.text, platform))}],
                <<Progress(100),
                  Finished("DOCX converted to " \o Upper(worker.target_format) \o "!")>>)
         ELSE Raised(worker, "cannot convert document")

\* with open(self.input_file, 'r', encoding='utf-8') as f: text_content = f.read()
text_read ==
    /\ worker.pc = "text_read"
    /\ \E ok \in (IF worker.input_file.kind = "text" THEN BOOLEAN ELSE {FALSE}) :
         IF ok
         THEN WorkerStep([worker EXCEPT !.pc = "text_write",
                             !.text_content = ReadText(worker.input_file.text)],
                         <<>>)
         ELSE Raised(worker, "cannot read input file")

\* The file the if/elif chain on target_format writes from text_content.
TextOutput(w, os) ==
    LET t    == w.target_format
        name == WithSuffix(BaseName(w), "", t)
    IN  IF t = "docx"
        THEN File(w.output_dir, name, "docx", 0, "", w.text_content)
        ELSE IF t = "html" /\ w.source_format = "MD"
        THEN File(w.output_dir, name, "text", 0, "",
                  WriteText(Markdown(w.text_content), os))
        ELSE IF t = "pdf" /\ w.source_format \in {"MD", "HTML"}
        THEN File(w.output_dir, name, "pdf", 1, "", <<>>)
        ELSE File(w.output_dir, name, "text", 0, "", WriteText(w.text_content, os))

\* The file open(out_path, "wb") has created when the renderer does not
\* complete the PDF.
Unfinished(out) == [out EXCEPT !.kind = "junk", !.pages = 0]

\* What pisa.CreatePDF can do: return a clean status, return a status whose
\* err counts the errors it met, or raise.
RenderOutcomes == {"ok", "err", "raise"}

\* The branches on target_format of the text sources, then progress 100 and
\* finished. The status pisa.CreatePDF returns is not read.
text_write ==
    /\ worker.pc = "text_write"
    /\ LET t   == worker.target_format
           pdf == t = "pdf" /\ worker.source_format \in {"MD", "HTML"}
           out == TextOutput(worker, platform)
       IN  \E r \in (IF pdf THEN RenderOutcomes ELSE {"ok", "raise"}) :
             IF r = "raise"
             THEN Raised([worker EXCEPT
                             !.render = IF pdf THEN "raise" ELSE "none",
                             !.written = IF pdf THEN @ \cup {Unfinished(out)}
                                         ELSE @],
                         IF pdf THEN "renderer: cannot create PDF"
                         ELSE "cannot write output file")
             ELSE WorkerStep(
                    [worker EXCEPT !.pc = "returned",
                        !.render = IF pdf THEN r ELSE "none",
                        !.written = @ \cup
                          {IF r = "err" THEN Unfinished(out) ELSE out}],
                    <<Progress(100), Finished("File converted to " \o Upper(t) \o "!")>>)

\* The document object of a run that raised is closed when the interpreter
\* finalises it, at a time the code does not decide.
doc_finalized ==
    /\ ~crashed
    /\ worker.pc = "returned"
    /\ "doc" \in worker.handles
    /\ worker' = [worker EXCEPT !.handles = @ \ {"doc"}]
    /\ UNCHANGED <<platform, chain, shellVars, queue, crashed>>

WorkerNext ==
    \/ run_enter
    \/ pdf_open \/ pdf_txt_page \/ pdf_txt_write
    \/ pdf_zip_open \/ pdf_zip_page \/ pdf_zip_close \/ pdf_single
    \/ image_open \/ image_save
    \/ docx_to_text
    \/ text_read \/ text_write
    \/ doc_finalized

\* ---------------------------------------------------------------- MainWindow
\* The slot without combo_target.clear() and addItems(): the widgets are
\* enabled over the items combo_target already has.
EnableWithoutRefill(source_format) ==
    /\ combo_target_enabled' = (source_format \in DOMAIN CONVERSIONS)
    /\ btn_convert' = (source_format \in DOMAIN CONVERSIONS)
    /\ UNCHANGED <<combo_target_items, combo_target>>

\* update_target_formats(source_format): the slot of combo_source's
\* currentTextChanged.
update_target_formats(source_format) ==
    IF source_format \in DOMAIN CONVERSIONS
    THEN /\ combo_target_items' = CONVERSIONS[source_format]
         /\ combo_target' = CONVERSIONS[source_format][1]
         /\ combo_target_enabled' = TRUE
         /\ btn_convert' = TRUE
    ELSE /\ combo_target_items' = <<>>
         /\ combo_target' = ""
         /\ combo_target_enabled' = FALSE
         /\ btn_convert' = FALSE

\* combo_source.setCurrentIndex(index of s): currentTextChanged is emitted, and
\* the slot runs, only when the current text changes.
SetCurrentSource(s) ==
    /\ combo_source' = s
    /\ IF s # combo_source
       THEN update_target_formats(s)
       ELSE UNCHANGED <<combo_target_items, combo_target, combo_target_enabled,
                        btn_convert>>

\* detect_file_type() for self.input_file = f.
detect_file_type(f) ==
    /\ combo_source_enabled' = TRUE
    /\ detected_type' = DetectType(f)
    /\ IF DetectType(f) # ""
       THEN /\ SetCurrentSource(DetectType(f))
            /\ dialog' = "none"
       ELSE /\ dialog' = "warning"
            /\ SetCurrentSource(SourceTypes[1])

\* load_file without the test of custom_output_dir.
LoadFileResetsDir(f) ==
    /\ input_file' = f
    /\ output_dir' = f.dir
    /\ detect_file_type(f)
    /\ UNCHANGED custom_output_dir

\* load_file(file_path)
load_file(f) ==
    /\ input_file' = f
    /\ output_dir' = IF ~custom_output_dir THEN f.dir ELSE output_dir
    /\ detect_file_type(f)
    /\ UNCHANGED custom_output_dir

\* select_file(): the dialog returns a file, or nothing when it is cancelled.
select_file ==
    /\ ~crashed
    /\ \E f \in ShellFiles \cup {NoFile} :
         IF f # NoFile
         THEN load_file(f)
         ELSE UNCHANGED shellVars
    /\ UNCHANGED <<platform, chain, worker, queue, crashed>>

\* dropEvent(event) with the path of a file.
dropEvent ==
    /\ ~crashed
    /\ \E f \in DropFiles : load_file(f)
    /\ UNCHANGED <<platform, chain, worker, queue, crashed>>

\* select_output_dir(): the dialog returns a folder, or "" when cancelled.
select_output_dir ==
    /\ ~crashed
    /\ \E d \in OutDirs \cup {""} :
         IF d # ""
         THEN /\ output_dir' = d
              /\ custom_output_dir' = TRUE
         ELSE UNCHANGED <<output_dir, custom_output_dir>>
    /\ UNCHANGED <<dialog, input_file, combo_source_enabled, combo_source,
                   combo_target_items, combo_target, combo_target_enabled,
                   btn_convert, detected_type>>
    /\ UNCHANGED <<platform, chain, worker, queue, crashed>>

\* The user picks another entry of combo_source.
combo_source_changed ==
    /\ ~crashed
    /\ combo_source_enabled
    /\ \E s \in Range(SourceTypes) :
         /\ s # combo_source
         /\ SetCurrentSource(s)
    /\ UNCHANGED <<dialog, input_file, output_dir, custom_output_dir,
                   combo_source_enabled,
                   detected_type>>
    /\ UNCHANGED <<platform, chain, worker, queue, crashed>>

\* The user picks another entry of combo_target.
combo_target_changed ==
    /\ ~crashed
    /\ combo_target_enabled
    /\ \E k \in 1..MaxPick :
         /\ k <= Len(combo_target_items)
         /\ combo_target_items[k] # combo_target
         /\ combo_target' = combo_target_items[k]
    /\ UNCHANGED <<dialog, input_file, output_dir, custom_output_dir,
                   combo_source_enabled,
                   combo_source, combo_target_items, combo_target_enabled, btn_convert,
                   detected_type>>
    /\ UNCHANGED <<platform, chain, worker, queue, crashed>>

\* The thread of self.worker is in run().
Running(w) == w.pc \notin {"none", "returned"}

\* start_conversion(), the slot of btn_convert.clicked. self.worker = ... drops
\* the last reference to the previous worker: Qt aborts the process when a
\* QThread is destroyed while its thread runs.
start_conversion ==
    /\ ~crashed
    /\ btn_convert
    /\ Len(queue) <= MaxPending
    /\ btn_convert' = FALSE
    /\ IF Running(worker)
       THEN /\ crashed' = TRUE
            /\ UNCHANGED worker
       ELSE /\ worker' = ConvertWorker(input_file, output_dir, combo_source,
                                       combo_target, TRUE)
            /\ UNCHANGED crashed
    /\ UNCHANGED <<input_file, output_dir, custom_output_dir, combo_source_enabled,
                   combo_source, combo_target_items, combo_target,
                   combo_target_enabled, dialog, detected_type>>
    /\ UNCHANGED <<platform, chain, queue>>

\* update_progress(val), when the window's thread takes a progress signal: the
\* value goes to the progress bar, which nothing reads.
update_progress ==
    /\ ~crashed
    /\ queue # <<>>
    /\ Head(queue) = "progress"
    /\ queue' = Tail(queue)
    /\ UNCHANGED <<dialog, input_file, output_dir, custom_output_dir,
                   combo_source_enabled,
                   combo_source, combo_target_items, combo_target,
                   combo_target_enabled, btn_convert, detected_type>>
    /\ UNCHANGED <<platform, chain, worker, crashed>>

\* conversion_finished(msg)
conversion_finished ==
    /\ ~crashed
    /\ queue # <<>>
    /\ Head(queue) = "finished"
    /\ btn_convert' = TRUE
    /\ queue' = Tail(queue)
    /\ UNCHANGED <<dialog, input_file, output_dir, custom_output_dir,
                   combo_source_enabled,
                   combo_source, combo_target_items, combo_target,
                   combo_target_enabled, detected_type>>
    /\ UNCHANGED <<platform, chain, worker, crashed>>

\* conversion_error(err_msg)
conversion_error ==
    /\ ~crashed
    /\ queue # <<>>
    /\ Head(queue) = "error"
    /\ btn_convert' = TRUE
    /\ queue' = Tail(queue)
    /\ UNCHANGED <<dialog, input_file, output_dir, custom_output_dir,
                   combo_source_enabled,
                   combo_source, combo_target_items, combo_target,
                   combo_target_enabled, detected_type>>
    /\ UNCHANGED <<platform, chain, worker, crashed>>

\* ------------------------------------------------- a worker used on its own
\* The source_format and target_format values a caller can pass.
SourceInputs == Range(SourceTypes) \cup {"XML"}

TargetInputs ==
    UNION {Range(CONVERSIONS[s]) : s \in DOMAIN CONVERSIONS} \cup {"PNG", "xml"}

\* ConvertWorker(input_file, output_dir, source_format, target_format).start()
\* by a caller other than the window; no slot is connected. A worker keeps
\* nothing of the workers before it, so one worker per behaviour covers them.
submit ==
    /\ ~crashed
    /\ worker.pc = "none"
    /\ \E f \in WorkerFiles, d \in OutDirs, s \in SourceInputs, t \in TargetInputs :
         worker' = ConvertWorker(f, d, s, t, FALSE)
    /\ UNCHANGED <<platform, chain, shellVars, queue, crashed>>

\* What a finished worker was: the job a later worker's input came from.
Job(w) ==
    [input_file |-> w.input_file, output_dir |-> w.output_dir,
     source_format |-> w.source_format, target_format |-> w.target_format]

\* The caller converts a file a finished worker wrote: a new worker on that
\* file, with the source type its bytes and name give and a target of
\* CONVERSIONS for it.
convert_output ==
    /\ ~crashed
    /\ worker.pc = "returned"
    /\ worker.emitted # <<>>
    /\ worker.emitted[Len(worker.emitted)].kind = "finished"
    /\ Len(chain) < MaxChain
    /\ \E f \in worker.written, d \in OutDirs :
         LET s == DetectType(f)
         IN  /\ s \in DOMAIN CONVERSIONS
             /\ \E k \in DOMAIN CONVERSIONS[s] :
                  worker' = ConvertWorker(f, d, s, CONVERSIONS[s][k], FALSE)
    /\ chain' = Append(chain, Job(worker))
    /\ UNCHANGED <<platform, shellVars, queue, crashed>>

\* ----------------------------------------------------------- specifications
\* MainWindow.__init__ and init_ui: combo_source holds the keys of CONVERSIONS
\* with the first one current; its signal is connected after the items are
\* added, so combo_target starts empty.
Init ==
    /\ platform \in {"posix", "nt"}
    /\ input_file = NoFile
    /\ output_dir = ""
    /\ custom_output_dir = FALSE
    /\ combo_source_enabled = FALSE
    /\ combo_source = SourceTypes[1]
    /\ combo_target_items = <<>>
    /\ combo_target = ""
    /\ combo_target_enabled = FALSE
    /\ btn_convert = FALSE
    /\ dialog = "none"
    /\ detected_type = ""
    /\ worker = NoWorker
    /\ queue = <<>>
    /\ crashed = FALSE
    /\ chain = <<>>

ShellNext ==
    \/ select_file \/ select_output_dir
    \/ combo_source_changed \/ combo_target_changed
    \/ start_conversion
    \/ update_progress \/ conversion_finished \/ conversion_error

\* The window and the workers it starts. The window's code does not read
\* os.linesep, so one platform bounds this specification.
InitWindow == Init /\ platform = "posix"

Next == ShellNext \/ WorkerNext

Spec == InitWindow /\ [][Next]_vars

\* Type detection on its own: files of every kind and name are dropped on the
\* window.
NextDetect == dropEvent \/ select_output_dir

SpecDetect == Init /\ [][NextDetect]_vars

\* A worker constructed directly, with any arguments.
NextWorker == submit \/ WorkerNext

SpecWorker == Init /\ [][NextWorker]_vars

\* Workers constructed directly, the output of one converted by the next.
NextChain == submit \/ convert_output \/ WorkerNext

SpecChain == Init /\ [][NextChain]_vars

\* ------------------------------------------------------------------- claims
IsTerminal(e) == e.kind \in {"finished", "error"}

\* The progress values a worker has emitted, in order.
ProgressOf(w) ==
    LET p == SelectSeq(w.emitted, LAMBDA e : e.kind = "progress")
    IN  [k \in DOMAIN p |-> p[k].pct]

\* run() has returned and its last signal is finished.
Succeeded(w) ==
    /\ w.pc = "returned"
    /\ w.emitted # <<>>
    /\ w.emitted[Len(w.emitted)].kind = "finished"

\* run() has returned and its last signal is error.
Failed(w) ==
    /\ w.pc = "returned"
    /\ w.emitted # <<>>
    /\ w.emitted[Len(w.emitted)].kind = "error"

\* (source_format, target_format) is a pair of CONVERSIONS.
InMatrix(s, t) == s \in DOMAIN CONVERSIONS /\ t \in Range(CONVERSIONS[s])

\* C1: a job emits at most one terminal signal (finished or error, never both,
\* never twice), and no signal follows it: the terminal signal is the last one
\* the job emits, on every path through run(), failing steps included.
C1_OneTerminalLast ==
    LET e == worker.emitted
    IN  /\ Cardinality({k \in DOMAIN e : IsTerminal(e[k])}) <= 1
        /\ \A k \in DOMAIN e : IsTerminal(e[k]) => k = Len(e)

\* A job that emitted progress and then failed.
C1_Witness ==
    /\ Failed(worker)
    /\ Len(worker.emitted) >= 2
    /\ worker.emitted[1].kind = "progress"

\* C2: every job reaches a terminal outcome: when run() has returned, whatever
\* source_format and target_format the worker was given, finished or error has
\* been emitted.
C2_ReturnedHasOutcome ==
    worker.pc = "returned" => (Succeeded(worker) \/ Failed(worker))

\* C3: a job whose (source type, target format) pair is not in CONVERSIONS opens
\* no file, writes no output, runs no pipeline step and ends with the single
\* outcome error("unsupported conversion").
C3_UnsupportedPairRejected ==
    (worker.pc # "none" /\ ~InMatrix(worker.source_format, worker.target_format))
    => /\ worker.pc \in {"start", "returned"}
       /\ worker.written = {}
       /\ worker.handles = {}
       /\ worker.pc = "returned" => worker.emitted = <<Error("unsupported conversion")>>

\* The terminal signal of a started job has not been delivered to the window.
OutcomePending ==
    \/ Running(worker)
    \/ \E k \in DOMAIN queue : queue[k] \in {"finished", "error"}

\* C4: at most one job at a time: while the outcome of a started job has not
\* been delivered, the convert action stays disabled (no second worker can be
\* started), and the process is never brought down by a second start.
C4_NoSecondStart == ~crashed /\ (OutcomePending => ~btn_convert)

\* A PDF -> txt job that has ended in success.
PdfTxtDone(w) ==
    /\ w.source_format = "PDF"
    /\ w.target_format = "txt"
    /\ Succeeded(w)

\* int((k / N) * 100): 100k/N truncated, one less where the double falls short.
Truncated(k, n) == ((100 * k) \div n) - (IF <<k, n>> \in FloatShort THEN 1 ELSE 0)

\* C5 (as amended): PDF to txt on N >= 1 pages emits exactly N progress values,
\* in order int((k/N)*100) for k = 1..N, the percentage truncated and not
\* rounded (33, 66, 100 for N = 3), the last being 100, then one finished.
C5_TruncatedPercentages ==
    (PdfTxtDone(worker) /\ worker.total_pages >= 1)
    => LET n == worker.total_pages
       IN  /\ worker.emitted =
                [k \in 1..n |-> Progress(Truncated(k, n))]
                \o <<Finished("PDF successfully extracted to Text!")>>
           /\ Truncated(n, n) = 100

\* C5 as stated: the values are round(k/N*100).
C5_RoundedPercentages ==
    (PdfTxtDone(worker) /\ worker.total_pages >= 1)
    => LET n == worker.total_pages
       IN  worker.emitted =
             [k \in 1..n |-> Progress(Round(100 * k, n))]
             \o <<Finished("PDF successfully extracted to Text!")>>

\* A three-page PDF has been extracted to text.
C5_Witness == PdfTxtDone(worker) /\ worker.total_pages = 3

\* Every progress value lies in 0..100 and the values never decrease.
ProgressInRangeMonotone(p) ==
    /\ \A k \in DOMAIN p : p[k] \in 0..100
    /\ \A k \in 1..(Len(p) - 1) : p[k] <= p[k + 1]

\* C6 (as amended): within a job every progress value lies in 0..100 and the
\* values never decrease; a job that ends in success has emitted 100 as its last
\* progress value, except PDF to txt on a document without pages, which ends in
\* success without any progress value.
C6_ProgressBounded ==
    LET p == ProgressOf(worker)
    IN  /\ ProgressInRangeMonotone(p)
        /\ Succeeded(worker)
           => \/ p # <<>> /\ p[Len(p)] = 100
              \/ /\ worker.source_format = "PDF"
                 /\ worker.target_format = "txt"
                 /\ worker.total_pages = 0
                 /\ p = <<>>

\* C6 as stated: every job that ends in success has emitted 100 last.
C6_SuccessEndsAt100 ==
    LET p == ProgressOf(worker)
    IN  /\ ProgressInRangeMonotone(p)
        /\ Succeeded(worker) => (p # <<>> /\ p[Len(p)] = 100)

\* A job of several pages has ended in success.
C6_Witness == Succeeded(worker) /\ Len(ProgressOf(worker)) >= 2

\* C7: PDF to png/jpg/jpeg. One page: the only output is <basename>.<ext>, no
\* archive. N > 1 pages: the only output is <basename>_images.zip with exactly
\* the entries <basename>_page_k.<ext>, k = 1..N, in page order. While the
\* archive is filled, one progress value has been emitted per entry written.
C7_PdfImageOutputs ==
    (worker.source_format = "PDF" /\ worker.target_format \in {"png", "jpg", "jpeg"})
    => LET n    == worker.total_pages
           t    == worker.target_format
           base == SplitRoot(worker.input_file.name)
       IN  /\ (Succeeded(worker) /\ n = 1)
              => /\ Cardinality(worker.written) = 1
                 /\ \A o \in worker.written :
                      /\ o.dir = worker.output_dir
                      /\ o.name = Append(base, t)
                      /\ o.kind # "zip"
                      /\ o.entries = <<>>
           /\ (Succeeded(worker) /\ n # 1)
              => /\ n > 1
                 /\ Cardinality(worker.written) = 1
                 /\ \A o \in worker.written :
                      /\ o.dir = worker.output_dir
                      /\ o.kind = "zip"
                      /\ o.name = WithSuffix(base, "_images", "zip")
                      /\ [k \in DOMAIN o.entries |-> o.entries[k].name]
                           = [k \in 1..n |->
                                WithSuffix(base, "_page_" \o ToString(k), t)]
           /\ worker.pc = "pdf_zip"
              => \A o \in worker.written :
                   Len(o.entries) = Len(ProgressOf(worker))

\* A three-page PDF has been converted to an archive of three images.
C7_Witness ==
    /\ worker.source_format = "PDF"
    /\ worker.target_format = "png"
    /\ Succeeded(worker)
    /\ worker.total_pages = 3
    /\ \E o \in worker.written : Len(o.entries) = 3

\* The extension table of the detection rule.
ExtTable(ext) ==
    CASE ext = ".pdf" -> "PDF"
      [] ext \in {".png", ".jpg", ".jpeg", ".webp", ".bmp", ".gif"} -> "Image"
      [] ext = ".docx" -> "DOCX"
      [] ext = ".md" -> "MD"
      [] ext \in {".htm", ".html"} -> "HTML"
      [] ext = ".txt" -> "TXT"
      [] ext \in {".py", ".js", ".c", ".cpp", ".cs", ".java", ".json", ".css"} -> "Code"
      [] OTHER -> ""

\* The detection rule: the magic number decides for PDF and images, the
\* extension table for the rest.
RuleType(f) ==
    IF f.kind = "pdf" THEN "PDF"
    ELSE IF f.kind \in {"png", "jpg"} THEN "Image"
    ELSE ExtTable(Lower(SplitExt(f.name)))

\* C8: the type detect_file_type finds for the loaded file is the one the rule
\* gives, for every kind of bytes and every extension; a .jpg file of
\* unrecognised bytes is an Image and a .html file is HTML, never Code.
C8_DetectionFollowsRule ==
    input_file # NoFile
    => /\ detected_type = RuleType(input_file)
       /\ (Guess(input_file) = "" /\ Lower(SplitExt(input_file.name)) = ".jpg")
          => detected_type = "Image"
       /\ (Guess(input_file) = "" /\ Lower(SplitExt(input_file.name)) = ".html")
          => detected_type = "HTML"

\* A .jpg file of unrecognised bytes has been detected as an image.
C8_Witness ==
    /\ input_file.name = <<"f", "jpg">>
    /\ input_file.kind = "junk"
    /\ detected_type = "Image"

\* C9: in the MD/HTML to pdf pipeline, when the renderer has reported a
\* failure, by raising or by its error status, the job ends with error carrying
\* the renderer's message and never with finished.
C9_RenderFailureIsError ==
    (worker.pc = "returned" /\ worker.render \in {"raise", "err"})
    => /\ Failed(worker)
       /\ worker.emitted[Len(worker.emitted)].msg = "renderer: cannot create PDF"
       /\ \A k \in DOMAIN worker.emitted : worker.emitted[k].kind # "finished"

\* C10: when run() has returned, every handle the job opened is released.
C10_HandlesReleased == worker.pc = "returned" => worker.handles = {}

\* The worker converts, as type s2 to t2, the output of one earlier job that
\* converted type s1 to t1, and has ended in success.
ChainDone(s1, t1, s2, t2) ==
    /\ Len(chain) = 1
    /\ chain[1].source_format = s1
    /\ chain[1].target_format = t1
    /\ worker.source_format = s2
    /\ worker.target_format = t2
    /\ Succeeded(worker)

\* C11: round trip. When a TXT file has been converted to md and the md file
\* written has been converted to txt, the content of the txt file written is
\* identical, character by character, to the content of the original file.
C11_RoundTripIdentical ==
    ChainDone("TXT", "md", "MD", "txt")
    => \A o \in worker.written : o.text = chain[1].input_file.text

\* No step of the job has raised: error has not been emitted.
NoStepRaised(w) == \A k \in DOMAIN w.emitted : w.emitted[k].kind # "error"

\* C12: every source type of CONVERSIONS has a target, and a job for a pair of
\* CONVERSIONS never has more than one output file; when run() has returned
\* and no step raised, the job has ended in success and has written exactly
\* one file, into the output directory.
C12_MatrixPairsConvert ==
    /\ \A s \in DOMAIN CONVERSIONS : CONVERSIONS[s] # <<>>
    /\ (worker.pc # "none" /\ InMatrix(worker.source_format, worker.target_format))
       => /\ Cardinality(worker.written) <= 1
          /\ (worker.pc = "returned" /\ NoStepRaised(worker))
             => /\ Succeeded(worker)
                /\ Cardinality(worker.written) = 1
                /\ \A o \in worker.written : o.dir = worker.output_dir

\* A TXT file has been converted to html, a pair no branch names.
C12_Witness ==
    /\ worker.source_format = "TXT"
    /\ worker.target_format = "html"
    /\ Succeeded(worker)
    /\ Cardinality(worker.written) = 1

\* C13: once a file has been loaded, combo_target offers exactly the targets
\* of CONVERSIONS for the selected source type, in the order of the matrix,
\* and the convert button is enabled unless the outcome of a started job is
\* still to come; so also right after the first file is loaded.
C13_TargetsFollowSource ==
    (input_file # NoFile /\ ~crashed)
    => /\ combo_source \in DOMAIN CONVERSIONS
       /\ combo_target_items = CONVERSIONS[combo_source]
       /\ ~OutcomePending => btn_convert

\* C14: a step that loads another file whose type neither the magic number
\* nor the extension gives warns the user and leaves the convert button
\* disabled: no source type is adopted for the file, whatever was loaded
\* before.
C14_UnknownTypeNotAdopted ==
    [][(input_file' # input_file /\ detected_type' = "")
       => (dialog' = "warning" /\ ~btn_convert')]_vars

\* The colour modes with an alpha channel or a palette.
AlphaOrPalette == {"RGBA", "LA", "P", "PA"}

\* C15: the Image pipeline. Once the image is open and about to be saved, its
\* mode is RGB when the target is jpg or jpeg and the source mode has an alpha
\* channel or a palette, and the source mode otherwise; a job that succeeds
\* has written <basename>_converted.<ext> in that mode and emitted progress
\* 100, once, before finished.
C15_ImageFlattened ==
    worker.source_format = "Image"
    => LET t == worker.target_format
           m == worker.input_file.mode
       IN  /\ worker.pc = "image_save"
              => worker.img_mode =
                   IF t \in {"jpg", "jpeg"} /\ m \in AlphaOrPalette THEN "RGB" ELSE m
           /\ Succeeded(worker)
              => /\ worker.emitted =
                      <<Progress(100),
                        Finished("Image converted to " \o Upper(t) \o "!")>>
                 /\ \A o \in worker.written :
                      /\ o.name = WithSuffix(BaseName(worker), "_converted", t)
                      /\ o.mode = worker.img_mode

\* The names a job can give its output: the base name of its input file, one
\* of the three suffixes, its target format or zip.
OutputNames(w) ==
    { WithSuffix(SplitRoot(w.input_file.name), sfx, ext) :
        sfx \in {"", "_images", "_converted"}, ext \in {w.target_format, "zip"} }

\* C16: a submitted job is immutable. In every step taken while the job runs,
\* whatever the window does meanwhile, the job's input file, output directory,
\* source type and target format stay as they were at submission, and every
\* file the job has written is in that output directory under a name made
\* from that input file and that target format.
C16_JobImmutable ==
    [][Running(worker)
       => /\ Job(worker') = Job(worker)
          /\ \A o \in worker'.written :
               o.dir = worker.output_dir /\ o.name \in OutputNames(worker)]_vars

\* A job has written its output after the window has gone on to another file,
\* another folder and another source type.
C16_Witness ==
    /\ worker.connected
    /\ worker.written # {}
    /\ input_file # worker.input_file
    /\ output_dir # worker.output_dir
    /\ combo_source # worker.source_format

\* C17: every job started through the window is well-formed. Whenever the
\* convert button is enabled, an input file and an output directory are set
\* and the selected target is a non-empty member of CONVERSIONS for the
\* selected source type; and every worker the window has started has an input
\* file, an output directory and a pair of CONVERSIONS.
C17_ShellJobsWellFormed ==
    /\ btn_convert
       => /\ input_file # NoFile
          /\ output_dir # ""
          /\ combo_target # ""
          /\ InMatrix(combo_source, combo_target)
    /\ worker.connected
       => /\ worker.input_file # NoFile
          /\ worker.output_dir # ""
          /\ worker.target_format # ""
          /\ InMatrix(worker.source_format, worker.target_format)

\* A job has been completed and delivered, the selector has moved to another
\* source type, and the convert button is enabled for the next job.
C17_Witness ==
    /\ worker.connected
    /\ Succeeded(worker)
    /\ queue = <<>>
    /\ btn_convert
    /\ combo_source # worker.source_format

\* C18: a conversion never overwrites its input. For a job whose source type
\* is the one detect_file_type gives its input file, whose output directory is
\* the folder of that file and whose target is in CONVERSIONS for the type, no
\* file written has the path of the input file.
C18_InputNotOverwritten ==
    ( /\ worker.pc # "none"
      /\ worker.source_format = DetectType(worker.input_file)
      /\ worker.output_dir = worker.input_file.dir
      /\ InMatrix(worker.source_format, worker.target_format) )
    => \A o \in worker.written :
         ~(o.dir = worker.input_file.dir /\ o.name = worker.input_file.name)

\* C19: the output directory. After every step, while no custom output
\* directory has been chosen and a file is loaded, output_dir is the folder of
\* the file loaded last; and once a custom directory has been chosen, a step
\* that loads another file leaves output_dir as it was.
C19_OutputDirRule ==
    [][/\ (~custom_output_dir' /\ input_file' # NoFile)
          => output_dir' = input_file'.dir
       /\ (custom_output_dir /\ input_file' # input_file)
          => (output_dir' = output_dir /\ custom_output_dir')]_vars

\* A file of another folder is loaded while a custom output directory is set.
C19_Witness ==
    /\ custom_output_dir
    /\ input_file # NoFile
    /\ output_dir \in OutDirs
    /\ output_dir # input_file.dir

====
